---- MODULE Spec2Model ----
(***************************************************************************)
(* ComfyUI-Load-From-URL: the download cache (utils.py and the copy of it  *)
(* inside LoadLoraFromURL), the two LoRA loader nodes and the frame/audio  *)
(* arithmetic of the video loader.                                         *)
(*                                                                         *)
(* The cache directory is a function from cache paths to files.  Every     *)
(* call into the outside world (HEAD probe, aria2c, HTTP GET, torch file   *)
(* loading, LoRA patching, cv2 decoding) is answered by an outcome drawn   *)
(* from the set of answers that call can give; the code around the call is *)
(* translated statement by statement.                                      *)
(***************************************************************************)
EXTENDS Integers, Sequences, FiniteSets, TLC

VARIABLES
    files,      \* the cache directories: cache path -> file
    ncalls,     \* entry-point calls made so far
    call,       \* the last call of a download_if_needed
    detect,     \* a call of a detect_downloader: its arguments, then its result
    lora,       \* the last call of LoadLoraFromURL.load_lora
    json,       \* the call of LoadLoraFromJSON.load_loras_from_json in progress
    video       \* the call of LoadVideoFromURL.load_video_from_url

vars == <<files, ncalls, call, detect, lora, json, video>>

(***************************************************************************)
(* Bounds                                                                  *)
(***************************************************************************)
NumBodies == 2      \* distinct remote contents a server may send
MaxCalls == 2       \* entry-point calls in one run
MaxTextLen == 3     \* tokens of an arbitrary loras_json text
MaxItems == 2       \* items of a well-formed loras_json array
MaxFps == 5         \* numerator of the source FPS
MaxForceFps == 3    \* force_fps
MaxFrames == 3      \* CAP_PROP_FRAME_COUNT
MaxSkip == 1        \* skip_first_frames
MaxNth == 2         \* select_every_nth
MaxCap == 2         \* frame_load_cap
MaxWidth == 2       \* CAP_PROP_FRAME_WIDTH
MaxHeight == 2      \* CAP_PROP_FRAME_HEIGHT

(***************************************************************************)
(* URLs, digests and cache paths                                           *)
(***************************************************************************)
\* A URL is a string, here a short sequence of character codes.
URLs == {<<1>>, <<2>>, <<2, 1>>}

\* hashlib.md5(url.encode()).hexdigest(): a deterministic digest of the bytes
\* of the URL with a finite range, so distinct URLs may share a digest.
DigestSpace == 2

RECURSIVE md5(_)
md5(s) ==
    IF s = <<>> THEN 1
    ELSE (3 * md5(SubSeq(s, 1, Len(s) - 1)) + s[Len(s)]) % DigestSpace

LoraDir == "input/url_loras"
VideoDir == "input/url_videos"

\* A cache path that ignores the URL.
get_cache_path_fixed(url, cache_dir, extension) ==
    [dir |-> cache_dir, name |-> 0, ext |-> extension]

\* utils.get_cache_path
get_cache_path(url, cache_dir, extension) ==
    [dir |-> cache_dir, name |-> md5(url), ext |-> extension]

\* LoadLoraFromURL._target_path (self.cache_dir is input/url_loras)
target_path(url) ==
    [dir |-> LoraDir, name |-> md5(url), ext |-> ".safetensors"]

\* The (cache_dir, extension) pairs the callers of utils.get_cache_path use:
\* LoadLoraFromJSON (default extension) and LoadVideoFromURL.
CacheKinds ==
    {[dir |-> LoraDir, ext |-> ".safetensors"], [dir |-> VideoDir, ext |-> ".mp4"]}

Paths ==
    {get_cache_path(u, k.dir, k.ext) : u \in URLs, k \in CacheKinds}
        \cup {target_path(u) : u \in URLs}

(***************************************************************************)
(* Files                                                                   *)
(***************************************************************************)
Bodies == 1..NumBodies

Absent == [st |-> "absent", body |-> 0]
Empty == [st |-> "empty", body |-> 0]
Partial(b) == [st |-> "partial", body |-> b]
Full(b) == [st |-> "full", body |-> b]

FileValues ==
    {Absent, Empty} \cup {Partial(b) : b \in Bodies} \cup {Full(b) : b \in Bodies}

\* os.path.exists and os.path.getsize (sizes in chunks)
exists(f) == f.st # "absent"
getsize(f) == CASE f.st = "empty" -> 0 [] f.st = "partial" -> 1 [] OTHER -> 2

(***************************************************************************)
(* edge_is_hot: one HEAD request                                           *)
(***************************************************************************)
None == "None"

AgeValues == {None, "0", "7", "bad"}
XCacheValues == {None, "MISS", "HIT", "TCP_HIT"}
XFdValues == {None, "hit"}

HeadResponses ==
    {[error |-> TRUE, age |-> None, xcache |-> None, xfd |-> None]}
        \cup [error : {FALSE}, age : AgeValues, xcache : XCacheValues, xfd : XFdValues]

\* re.compile(r"\bHIT\b", re.I).search on the header values above: the
\* underscore of TCP_HIT is a word character, so there is no boundary before HIT.
CacheHitRe(s) == s \in {"HIT", "hit"}

\* int() of a header value; "bad" raises ValueError
IntParses(s) == s \in {"0", "7"}
IntOf(s) == IF s = "7" THEN 7 ELSE 0

edge_is_hot(resp) ==
    IF resp.error THEN FALSE
    ELSE LET age == IF resp.age = None THEN "0" ELSE resp.age IN
         IF ~IntParses(age) THEN FALSE
         ELSE IF IntOf(age) > 0 THEN TRUE
         ELSE LET x_cache == IF resp.xcache # None THEN resp.xcache
                             ELSE IF resp.xfd = None THEN "" ELSE resp.xfd
              IN  CacheHitRe(x_cache)

(***************************************************************************)
(* detect_downloader                                                       *)
(***************************************************************************)
Preferences == {"auto", "aria2", "python"}

\* resp: what the HEAD request would answer; installed: shutil.which("aria2c").
\* The result carries the tool and the requests issued to choose it.
Probe == [name |-> "head", failed |-> FALSE]

\* A chooser that prefers aria2 whenever it is installed, hot edge or not.
detect_downloader_eager(preference, resp, installed) ==
    IF preference # "auto" THEN [tool |-> preference, trace |-> <<>>]
    ELSE IF installed THEN [tool |-> "aria2", trace |-> <<Probe>>]
    ELSE [tool |-> "python", trace |-> <<Probe>>]

detect_downloader(preference, resp, installed) ==
    IF preference # "auto" THEN [tool |-> preference, trace |-> <<>>]
    ELSE IF edge_is_hot(resp) THEN [tool |-> "python", trace |-> <<Probe>>]
    ELSE IF installed THEN [tool |-> "aria2", trace |-> <<Probe>>]
    ELSE [tool |-> "python", trace |-> <<Probe>>]

(***************************************************************************)
(* download_aria2 and download_python                                      *)
(***************************************************************************)
\* What one download attempt can do: complete with body b, fail before the
\* destination is touched, fail after open(dest, "wb") truncated it, or fail
\* after some chunks were written.
Unused == [st |-> "unused", body |-> 0]

PythonOutcomes ==
    {[st |-> "refused", body |-> 0], [st |-> "truncated", body |-> 0]}
        \cup {[st |-> s, body |-> b] : s \in {"ok", "partial"}, b \in Bodies}

\* subprocess.run(["aria2c", ...], check=True): FileNotFoundError when aria2c is
\* not installed, CalledProcessError on a non-zero exit.
Aria2Outcomes(installed) ==
    {[st |-> "refused", body |-> 0]}
        \cup IF installed
             THEN {[st |-> s, body |-> b] : s \in {"ok", "partial"}, b \in Bodies}
             ELSE {}

Write(f, out) ==
    CASE out.st = "ok" -> Full(out.body)
      [] out.st = "partial" -> Partial(out.body)
      [] out.st = "truncated" -> Empty
      [] OTHER -> f

download_aria2(f, out) == [raised |-> out.st # "ok", file |-> Write(f, out)]

download_python(f, out) == [raised |-> out.st # "ok", file |-> Write(f, out)]

(***************************************************************************)
(* download_if_needed (utils.py) and LoadLoraFromURL._download_if_needed   *)
(***************************************************************************)
\* A cache test that forgets the size.
IsCachedAnySize(f) == exists(f)

\* f is the file at dest when the call starts.
IsCached(f) == exists(f) /\ getsize(f) > 0

\* What a call hands back, and the file it leaves at dest (the only path it
\* writes).  raised: an exception left the function (then seconds and tool
\* are not returned).  trace: the requests and processes the call started, in
\* order, each attempt with how it ended.  body: the content of the attempt
\* that succeeded.
Returned(f, seconds, tool, trace, body) ==
    [file |-> f, raised |-> FALSE, seconds |-> seconds, tool |-> tool,
     trace |-> trace, body |-> body]

Raised(f, trace) ==
    [file |-> f, raised |-> TRUE, seconds |-> 0, tool |-> None,
     trace |-> trace, body |-> 0]

Attempt(name, res) == [name |-> name, failed |-> res.raised]

\* An except branch that re-raises whatever the tool was.
FallbackNever(f, tool, trace, python, elapsed) == Raised(f, trace)

\* The except branch: fall back to python once if the tool was aria2, else re-raise.
Fallback(f, tool, trace, python, elapsed) ==
    IF tool = "aria2"
    THEN LET second == download_python(f, python)
             trace2 == Append(trace, Attempt("get", second))
         IN  IF second.raised THEN Raised(second.file, trace2)
             ELSE Returned(second.file, elapsed, "python", trace2, python.body)
    ELSE Raised(f, trace)

\* det: what detect_downloader returned; aria2, python: the outcome of each
\* attempt if it is made; elapsed: time.time() - start.
download_if_needed(f, det, aria2, python, elapsed) ==
    IF IsCached(f) THEN Returned(f, 0, "cached", <<>>, 0)
    ELSE LET tool == det.tool
             first == IF tool = "aria2" THEN download_aria2(f, aria2)
                      ELSE download_python(f, python)
             trace1 == Append(det.trace,
                              Attempt(IF tool = "aria2" THEN "aria2" ELSE "get", first))
         IN  IF first.raised THEN Fallback(first.file, tool, trace1, python, elapsed)
             ELSE Returned(first.file, elapsed, tool, trace1,
                           IF tool = "aria2" THEN aria2.body ELSE python.body)

\* time.time() - start, up to sign: no measurable time, or some.
Elapsed == {0, 1}

\* The tools detect_downloader can choose for a preference, over every answer
\* of the HEAD request.
Detections(preference, installed) ==
    {detect_downloader(preference, resp, installed) : resp \in HeadResponses}

\* Every way one call can end: the environment answers only the requests the
\* call makes (no aria2c outcome when python is chosen, no second attempt
\* after a success).
ResultsOf(f, preference) ==
    IF IsCached(f)
    THEN {download_if_needed(f, [tool |-> None, trace |-> <<>>], Unused, Unused, 0)}
    ELSE UNION { UNION { UNION {
             {download_if_needed(f, det, a, p, el) :
                  p \in IF det.tool = "aria2" /\ a.st = "ok" THEN {Unused}
                        ELSE PythonOutcomes,
                  el \in Elapsed}
             : a \in IF det.tool = "aria2" THEN Aria2Outcomes(installed) ELSE {Unused} }
             : det \in Detections(preference, installed) }
             : installed \in BOOLEAN }

\* The same, tabulated once over the files and preferences.
ResultsTable == [f \in FileValues, preference \in Preferences |-> ResultsOf(f, preference)]

DownloadResults(f, preference) == ResultsTable[f, preference]

(***************************************************************************)
(* The download cache as a state machine                                   *)
(***************************************************************************)
Idle == [op |-> "idle"]

InitFiles == [p \in Paths |-> Absent]

Init ==
    /\ files = InitFiles
    /\ ncalls = 0
    /\ call = Idle
    /\ detect = Idle
    /\ lora = Idle
    /\ json = [pc |-> "idle"]
    /\ video = Idle

Record(op, url, dest, preference, r) ==
    [op |-> op, url |-> url, dest |-> dest, preference |-> preference,
     raised |-> r.raised, seconds |-> r.seconds, tool |-> r.tool,
     trace |-> r.trace, body |-> r.body]

\* utils.download_if_needed(url, dest, preference), dest from get_cache_path
UtilsDownloadIfNeeded ==
    /\ ncalls < MaxCalls
    /\ \E url \in URLs, k \in CacheKinds, preference \in Preferences :
        LET dest == get_cache_path(url, k.dir, k.ext) IN
        \E r \in DownloadResults(files[dest], preference) :
            /\ files' = [files EXCEPT ![dest] = r.file]
            /\ call' = Record("utils", url, dest, preference, r)
    /\ ncalls' = ncalls + 1
    /\ UNCHANGED <<detect, lora, json, video>>

\* LoadLoraFromURL._download_if_needed(url, preference)
LoraDownloadIfNeeded ==
    /\ ncalls < MaxCalls
    /\ \E url \in URLs, preference \in Preferences :
        LET dest == target_path(url) IN
        \E r \in DownloadResults(files[dest], preference) :
            /\ files' = [files EXCEPT ![dest] = r.file]
            /\ call' = Record("lora", url, dest, preference, r)
    /\ ncalls' = ncalls + 1
    /\ UNCHANGED <<detect, lora, json, video>>

NextDownload == UtilsDownloadIfNeeded \/ LoraDownloadIfNeeded

SpecDownload == Init /\ [][NextDownload]_vars

(***************************************************************************)
(* detect_downloader on its own: the arguments and the environment are     *)
(* drawn first, then the function is applied.  utils.detect_downloader and *)
(* load_lora_url_node._detect_downloader are the same text.                *)
(***************************************************************************)
InitDetect ==
    /\ files = InitFiles
    /\ ncalls = 0
    /\ call = Idle
    /\ lora = Idle
    /\ json = [pc |-> "idle"]
    /\ video = Idle
    /\ detect \in [op : {"args"}, fn : {"utils", "lora"}, preference : Preferences,
                   resp : HeadResponses, installed : BOOLEAN]

Detected(fn, ret) ==
    [op |-> "returned", fn |-> fn, preference |-> detect.preference,
     resp |-> detect.resp, installed |-> detect.installed,
     tool |-> ret.tool, trace |-> ret.trace]

UtilsDetectDownloader ==
    /\ detect.op = "args" /\ detect.fn = "utils"
    /\ detect' = Detected("utils",
                          detect_downloader(detect.preference, detect.resp, detect.installed))
    /\ UNCHANGED <<files, ncalls, call, lora, json, video>>

LoraDetectDownloader ==
    /\ detect.op = "args" /\ detect.fn = "lora"
    /\ detect' = Detected("lora",
                          detect_downloader(detect.preference, detect.resp, detect.installed))
    /\ UNCHANGED <<files, ncalls, call, lora, json, video>>

NextDetect == UtilsDetectDownloader \/ LoraDetectDownloader

SpecDetect == InitDetect /\ [][NextDetect]_vars

\* C3: an explicit preference is returned as given and no HEAD probe is made;
\* with "auto" the result is "python" when the edge cache is hot, otherwise
\* "aria2" when aria2c is installed, otherwise "python"; with "auto" the
\* result is never "aria2" when aria2c is not installed.
C3_DetectDownloader ==
    detect.op = "returned" =>
        /\ detect.preference # "auto" =>
               /\ detect.tool = detect.preference
               /\ detect.trace = <<>>
        /\ detect.preference = "auto" =>
               /\ edge_is_hot(detect.resp) => detect.tool = "python"
               /\ ~edge_is_hot(detect.resp) /\ detect.installed => detect.tool = "aria2"
               /\ ~edge_is_hot(detect.resp) /\ ~detect.installed => detect.tool = "python"
               /\ ~detect.installed => detect.tool # "aria2"

C3_Witness ==
    /\ detect.op = "returned"
    /\ detect.preference = "auto"
    /\ detect.installed
    /\ detect.resp.xcache = "HIT"
    /\ detect.resp.age = "0"
    /\ detect.tool = "python"

(***************************************************************************)
(* Models and LoRA patching (comfy.utils, comfy.sd)                        *)
(***************************************************************************)
\* A MODEL is the list of LoRA patches applied to the base model, oldest
\* first; a patch is the content of the LoRA file and the strength, in tenths.
Patch(body, strength) == [lora |-> body, strength |-> strength]
InputModels == {<<>>, <<Patch(1, 10)>>}
Strengths == {0, 8, 10}

\* comfy.utils.load_torch_file(path): raises on a truncated file, and may raise
\* on a complete one (not a LoRA).
LoadOutcomes(f) == IF f.st = "full" THEN {TRUE, FALSE} ELSE {FALSE}

\* comfy.sd.load_lora_for_models(model, None, lora_obj, strength, 0)[0]: a
\* patched clone; model itself is left as it is.
load_lora_for_models(model, f, strength) == Append(model, Patch(f.body, strength))

\* What a download_if_needed call leaves to its caller: the file and whether
\* it raised.
DownloadOutcomes ==
    [f \in FileValues, preference \in Preferences |->
        {[file |-> r.file, raised |-> r.raised] : r \in DownloadResults(f, preference)}]

(***************************************************************************)
(* LoadLoraFromURL.load_lora                                               *)
(***************************************************************************)
\* An except branch that lets the exception through.
OnErrorRaise(model) == [raised |-> TRUE, value |-> <<>>]

\* except Exception: return (model,)
OnError(model) == [raised |-> FALSE, value |-> <<model>>]

\* download: the outcome of _download_if_needed; loads, patches: whether
\* load_torch_file and load_lora_for_models return (when they are called).
load_lora(model, strength, download, loads, patches) ==
    IF download.raised THEN OnError(model)
    ELSE IF ~loads THEN OnError(model)
    ELSE IF ~patches THEN OnError(model)
    ELSE [raised |-> FALSE,
          value |-> <<load_lora_for_models(model, download.file, strength)>>]

FailedAt(download, loads, patches) ==
    IF download.raised THEN "download"
    ELSE IF ~loads THEN "load"
    ELSE IF ~patches THEN "patch"
    ELSE "none"

LoadLora ==
    /\ ncalls < MaxCalls
    /\ \E url \in URLs, model \in InputModels, strength \in Strengths,
          downloader \in Preferences :
        LET dest == target_path(url) IN
        \E download \in DownloadOutcomes[files[dest], downloader] :
        \E loads \in LoadOutcomes(download.file), patches \in BOOLEAN :
            LET ret == load_lora(model, strength, download, loads, patches) IN
            /\ files' = [files EXCEPT ![dest] = download.file]
            /\ lora' = [op |-> "load_lora", url |-> url, model |-> model,
                        strength |-> strength, body |-> download.file.body,
                        failed |-> FailedAt(download, loads, patches),
                        raised |-> ret.raised, value |-> ret.value]
    /\ ncalls' = ncalls + 1
    /\ UNCHANGED <<call, detect, json, video>>

NextLora == LoadLora

SpecLora == Init /\ [][NextLora]_vars

\* C8: load_lora never raises; it returns a one-element tuple, holding the
\* patched model when download, file loading and patching all succeeded and
\* the input model itself when any of them failed.
C8_LoadLoraNeverRaises ==
    lora.op = "load_lora" =>
        /\ ~lora.raised
        /\ Len(lora.value) = 1
        /\ lora.failed = "none" =>
               lora.value[1] = Append(lora.model, Patch(lora.body, lora.strength))
        /\ lora.failed # "none" => lora.value[1] = lora.model

C8_Witness ==
    /\ lora.op = "load_lora"
    /\ lora.failed = "load"
    /\ files[target_path(lora.url)].st = "partial"
    /\ lora.model # <<>>
    /\ lora.value = <<lora.model>>

(***************************************************************************)
(* JSON text (json.loads)                                                  *)
(***************************************************************************)
\* A text is a sequence of tokens: punctuation, a run of whitespace, a string
\* literal (v: its characters), a number literal (v: its value in tenths) or
\* null.  A string is a sequence of character codes.
Tok(t, v) == [t |-> t, v |-> v]
Punct(t) == Tok(t, <<>>)
Ws == Punct("ws")
StrTok(chars) == Tok("str", chars)
NumTok(n) == Tok("num", <<n>>)

\* Parsed values
Val(k, v) == [k |-> k, v |-> v]
Null == Val("null", <<>>)
Str(chars) == Val("str", chars)
Num(n) == Val("num", <<n>>)
List(items) == Val("list", items)
Dict(pairs) == Val("dict", pairs)

KeyUrl == <<117, 114, 108>>
KeyStrength == <<115, 116, 114, 101, 110, 103, 116, 104>>

RECURSIVE SkipWs(_)
SkipWs(s) == IF s # <<>> /\ s[1].t = "ws" THEN SkipWs(Tail(s)) ELSE s

RECURSIVE DropWsRight(_)
DropWsRight(s) ==
    IF s # <<>> /\ s[Len(s)].t = "ws" THEN DropWsRight(SubSeq(s, 1, Len(s) - 1)) ELSE s

\* loras_json.strip()
StripText(s) == DropWsRight(SkipWs(s))

ParseFail == [ok |-> FALSE, v |-> Null, rest |-> <<>>]
Parsed(v, rest) == [ok |-> TRUE, v |-> v, rest |-> rest]

RECURSIVE ParseValue(_), ParseElements(_, _), ParseMembers(_, _)

ParseValue(s) ==
    LET t == SkipWs(s) IN
    IF t = <<>> THEN ParseFail
    ELSE CASE t[1].t = "num" -> Parsed(Val("num", t[1].v), Tail(t))
           [] t[1].t = "str" -> Parsed(Str(t[1].v), Tail(t))
           [] t[1].t = "null" -> Parsed(Null, Tail(t))
           [] t[1].t = "[" ->
                  LET u == SkipWs(Tail(t)) IN
                  IF u # <<>> /\ u[1].t = "]" THEN Parsed(List(<<>>), Tail(u))
                  ELSE ParseElements(u, <<>>)
           [] t[1].t = "{" ->
                  LET u == SkipWs(Tail(t)) IN
                  IF u # <<>> /\ u[1].t = "}" THEN Parsed(Dict(<<>>), Tail(u))
                  ELSE ParseMembers(u, <<>>)
           [] OTHER -> ParseFail

\* value ("," value)* "]"
ParseElements(s, acc) ==
    LET r == ParseValue(s) IN
    IF ~r.ok THEN ParseFail
    ELSE LET u == SkipWs(r.rest) IN
         IF u = <<>> THEN ParseFail
         ELSE IF u[1].t = "," THEN ParseElements(Tail(u), Append(acc, r.v))
         ELSE IF u[1].t = "]" THEN Parsed(List(Append(acc, r.v)), Tail(u))
         ELSE ParseFail

\* string ":" value ("," string ":" value)* "}"
ParseMembers(s, acc) ==
    LET t == SkipWs(s) IN
    IF t = <<>> \/ t[1].t # "str" THEN ParseFail
    ELSE LET c == SkipWs(Tail(t)) IN
         IF c = <<>> \/ c[1].t # ":" THEN ParseFail
         ELSE LET r == ParseValue(Tail(c)) IN
              IF ~r.ok THEN ParseFail
              ELSE LET u == SkipWs(r.rest)
                       acc2 == Append(acc, <<t[1].v, r.v>>)
                   IN  IF u = <<>> THEN ParseFail
                       ELSE IF u[1].t = "," THEN ParseMembers(Tail(u), acc2)
                       ELSE IF u[1].t = "}" THEN Parsed(Dict(acc2), Tail(u))
                       ELSE ParseFail

\* json.loads: one value, then nothing but whitespace; error: JSONDecodeError
json_loads(s) ==
    LET r == ParseValue(s) IN
    IF r.ok /\ SkipWs(r.rest) = <<>> THEN [error |-> FALSE, v |-> r.v]
    ELSE [error |-> TRUE, v |-> Null]

\* dict.get(key, default): the last member with that key wins
DictGet(d, key, default) ==
    LET at == {i \in 1..Len(d.v) : d.v[i][1] = key} IN
    IF at = {} THEN default
    ELSE d.v[CHOOSE i \in at : \A j \in at : j <= i][2]

\* str.strip()
IsSpace(c) == c \in {9, 10, 13, 32}

RECURSIVE lstrip(_)
lstrip(s) == IF s # <<>> /\ IsSpace(s[1]) THEN lstrip(Tail(s)) ELSE s

RECURSIVE rstrip(_)
rstrip(s) ==
    IF s # <<>> /\ IsSpace(s[Len(s)]) THEN rstrip(SubSeq(s, 1, Len(s) - 1)) ELSE s

strip(s) == rstrip(lstrip(s))

(***************************************************************************)
(* The loras_json texts a call is given                                    *)
(***************************************************************************)
RECURSIVE Join(_, _)
Join(parts, sep) ==
    IF parts = <<>> THEN <<>>
    ELSE IF Len(parts) = 1 THEN parts[1]
    ELSE parts[1] \o sep \o Join(Tail(parts), sep)

\* The text of a value, as json.dumps writes it.
RECURSIVE Render(_)
Render(v) ==
    CASE v.k = "num" -> <<Tok("num", v.v)>>
      [] v.k = "str" -> <<StrTok(v.v)>>
      [] v.k = "null" -> <<Punct("null")>>
      [] v.k = "list" ->
             <<Punct("[")>> \o Join([i \in 1..Len(v.v) |-> Render(v.v[i])],
                                    <<Punct(","), Ws>>) \o <<Punct("]")>>
      [] OTHER ->
             <<Punct("{")>>
                 \o Join([i \in 1..Len(v.v) |->
                             <<StrTok(v.v[i][1]), Punct(":"), Ws>> \o Render(v.v[i][2])],
                         <<Punct(","), Ws>>)
                 \o <<Punct("}")>>

\* Array items: a number, a LoRA with a strength, a LoRA with the default
\* strength and spaces around its url, a blank url, no url, strength 0, and
\* a url that is null.
ItemChoices ==
    << Num(70),
      Dict(<< <<KeyUrl, Str(<<1>>)>>, <<KeyStrength, Num(8)>> >>),
      Dict(<< <<KeyUrl, Str(<<32, 2>>)>> >>),
      Dict(<< <<KeyUrl, Str(<<32>>)>> >>),
      Dict(<< <<KeyStrength, Num(10)>> >>),
      Dict(<< <<KeyUrl, Str(<<1>>)>>, <<KeyStrength, Num(0)>> >>),
      Dict(<< <<KeyUrl, Null>> >>) >>

SeqsUpTo(S, n) == UNION {[1..k -> S] : k \in 0..n}

TextTokens ==
    {Punct("["), Punct("]"), Punct("{"), Punct("}"), Punct(","), Punct(":"),
     Punct("null"), Ws, NumTok(8), StrTok(KeyUrl)}

\* Arbitrary short texts, and well-formed arrays with and without blanks
\* around them.
JsonTexts ==
    SeqsUpTo(TextTokens, MaxTextLen)
        \cup {Render(List([i \in 1..Len(c) |-> ItemChoices[c[i]]])) :
                  c \in SeqsUpTo(DOMAIN ItemChoices, MaxItems)}
        \cup {<<Ws>> \o Render(List(<<ItemChoices[c]>>)) \o <<Ws>> : c \in DOMAIN ItemChoices}

(***************************************************************************)
(* LoadLoraFromJSON.load_loras_from_json, one loop iteration per step      *)
(***************************************************************************)
\* A handler that lets the JSONDecodeError through.
OnJsonErrorRaise(model) == [raised |-> TRUE, value |-> <<>>]

\* except json.JSONDecodeError, and the isinstance test: return (model,)
OnJsonError(model) == [raised |-> FALSE, value |-> <<model>>]

\* The outer except Exception: return (model,)
OnFatal(model) == [raised |-> FALSE, value |-> <<model>>]

\* log: what became of each item the loop has taken up, in order.
\* downloads: the calls of download_if_needed made so far.
Entered(model, text, downloader, items) ==
    [pc |-> "loop", model |-> model, text |-> text, downloader |-> downloader,
     items |-> items, i |-> 1, current_model |-> model, log |-> <<>>,
     downloads |-> 0, raised |-> FALSE, value |-> <<>>]

Finished(j, ret) == [j EXCEPT !.pc = "done", !.raised = ret.raised, !.value = ret.value]

Logged(j, what) == [j EXCEPT !.i = @ + 1, !.log = Append(@, what)]

Skipped == [status |-> "skipped", patch |-> Patch(0, 0)]
Failed == [status |-> "failed", patch |-> Patch(0, 0)]
Applied(patch) == [status |-> "applied", patch |-> patch]
Fatal == [status |-> "fatal", patch |-> Patch(0, 0)]

\* json.loads(loras_json.strip()), tabulated once over the texts.
LoadsTable == [text \in JsonTexts |-> json_loads(StripText(text))]

\* Lines 55-67: parse the text; return early unless it is an array.  One call
\* is followed from its entry to its return.
JsonCall ==
    /\ json.pc = "idle"
    /\ \E model \in InputModels, text \in JsonTexts, downloader \in Preferences :
        LET parsed == LoadsTable[text]
            entered == Entered(model, text, downloader,
                               IF parsed.error THEN <<>> ELSE parsed.v.v)
        IN  json' = IF parsed.error THEN Finished(entered, OnJsonError(model))
                    ELSE IF parsed.v.k # "list" THEN Finished(entered, OnJsonError(model))
                    ELSE entered
    /\ ncalls' = ncalls + 1
    /\ UNCHANGED <<files, call, detect, lora, video>>

\* Lines 70-105: one iteration of the loop over loras_data.
JsonItem ==
    /\ json.pc = "loop"
    /\ json.i <= Len(json.items)
    /\ LET lora_data == json.items[json.i] IN
       IF lora_data.k # "dict"
       THEN json' = Logged(json, Skipped) /\ UNCHANGED files
       ELSE LET got == DictGet(lora_data, KeyUrl, Str(<<>>))
                strength == DictGet(lora_data, KeyStrength, Num(10))
            IN  IF got.k # "str"
                THEN \* .strip() of a value that is no string: AttributeError,
                     \* outside the inner try, caught by the outer except
                     /\ json' = Finished([json EXCEPT !.log = Append(@, Fatal)],
                                         OnFatal(json.model))
                     /\ UNCHANGED files
                ELSE LET url == strip(got.v) IN
                     IF url = <<>>
                     THEN json' = Logged(json, Skipped) /\ UNCHANGED files
                     ELSE IF strength = Num(0)
                     THEN json' = Logged(json, Skipped) /\ UNCHANGED files
                     ELSE LET dest == get_cache_path(url, LoraDir, ".safetensors") IN
                          \E download \in DownloadOutcomes[files[dest], json.downloader] :
                          \E loads \in LoadOutcomes(download.file), patches \in BOOLEAN :
                              LET ok == ~download.raised /\ loads /\ patches
                                  patch == Patch(download.file.body, strength.v[1])
                                  j == [json EXCEPT !.downloads = @ + 1]
                              IN  /\ files' = [files EXCEPT ![dest] = download.file]
                                  /\ json' =
                                       IF ok
                                       THEN Logged([j EXCEPT !.current_model =
                                                       load_lora_for_models(
                                                           @, download.file, strength.v[1])],
                                                   Applied(patch))
                                       ELSE Logged(j, Failed)
    /\ UNCHANGED <<ncalls, call, detect, lora, video>>

\* Lines 107-108: return (current_model,)
JsonReturn ==
    /\ json.pc = "loop"
    /\ json.i > Len(json.items)
    /\ json' = Finished(json, [raised |-> FALSE, value |-> <<json.current_model>>])
    /\ UNCHANGED <<files, ncalls, call, detect, lora, video>>

NextJson == JsonCall \/ JsonItem \/ JsonReturn

SpecJson == Init /\ [][NextJson]_vars

Returns == json.pc = "done"

NotAnArray(text) ==
    LET parsed == json_loads(StripText(text)) IN parsed.error \/ parsed.v.k # "list"

\* C9: a call never raises; when loras_json is not valid JSON, or is valid
\* JSON that is not an array, the call returns the input model, has attempted
\* no download and has applied no LoRA.
C9_MalformedInput ==
    Returns =>
        /\ ~json.raised
        /\ NotAnArray(json.text) =>
               /\ json.value = <<json.model>>
               /\ json.downloads = 0
               /\ json.log = <<>>

\* An object: valid JSON that is not an array.
C9_Witness ==
    /\ Returns
    /\ json.text = <<Punct("{"), Punct("}")>>
    /\ json.model # <<>>
    /\ json.value = <<json.model>>

RECURSIVE AppliedPatches(_)
AppliedPatches(log) ==
    IF log = <<>> THEN <<>>
    ELSE (IF log[1].status = "applied" THEN <<log[1].patch>> ELSE <<>>)
             \o AppliedPatches(Tail(log))

\* C10: when loras_json is an array, every item is taken up, and the returned
\* model is the input model with the LoRAs of the items that were applied
\* (objects with a non-empty url and a non-zero strength that downloaded,
\* loaded and patched), in array order.
C10_PerItemIsolation ==
    Returns /\ ~NotAnArray(json.text) =>
        /\ Len(json.log) = Len(json.items)
        /\ \A k \in 1..Len(json.log) : json.log[k].status # "fatal"
        /\ json.value = <<json.model \o AppliedPatches(json.log)>>

(***************************************************************************)
(* LoadVideoFromURL.load_video_from_url: stride, frames and audio window   *)
(***************************************************************************)
\* A float is kept as an exact fraction with a positive denominator.
Frac(n, d) == [num |-> n, den |-> d]
Zero == Frac(0, 1)
Truthy(x) == x.num # 0
FracEq(x, y) == x.num * y.den = y.num * x.den
FracLeq(x, y) == x.num * y.den <= y.num * x.den
FracLess(x, y) == x.num * y.den < y.num * x.den

Max(a, b) == IF a >= b THEN a ELSE b

\* round(n / d) of Python 3: to the nearest integer, a tie to the even one
\* (n >= 0, d > 0).
Round(n, d) ==
    LET q == n \div d
        r == n % d
    IN  IF 2 * r < d THEN q
        ELSE IF 2 * r > d THEN q + 1
        ELSE IF q % 2 = 0 THEN q ELSE q + 1

\* Lines 252-254
auto_stride(fps, force_fps) ==
    IF Truthy(fps) /\ force_fps > 0 /\ FracLess(Frac(force_fps, 1), fps)
    THEN Max(1, Round(fps.num, fps.den * force_fps))
    ELSE 1

\* Lines 256-259
Stride(fps, force_fps, select_every_nth) ==
    Max(select_every_nth, auto_stride(fps, force_fps))

loaded_fps(fps, stride) ==
    IF Truthy(fps) THEN Frac(fps.num, fps.den * stride) ELSE Zero

\* Lines 264-273
target_frame_time(lfps) == IF Truthy(lfps) THEN Frac(lfps.den, lfps.num) ELSE Zero

start_time(fps, skip_first_frames) ==
    IF Truthy(fps) THEN Frac(skip_first_frames * fps.den, fps.num) ELSE Zero

audio_duration(total_frames, skip_first_frames, frame_load_cap, stride, tft) ==
    IF frame_load_cap > 0 THEN Frac(frame_load_cap * tft.num, tft.den)
    ELSE LET available_frames == (total_frames - skip_first_frames) \div stride
         IN  Frac(available_frames * tft.num, tft.den)

\* Lines 281-302: the loop over range(total_frames), from index i with
\* frame_count frames kept so far; readable: the frames cap.read() delivers.
RECURSIVE ReadFrames(_, _, _, _, _, _, _)
ReadFrames(i, frame_count, total_frames, readable, skip_first_frames, stride, frame_load_cap) ==
    IF i >= total_frames THEN frame_count
    ELSE IF i >= readable THEN frame_count
    ELSE IF i < skip_first_frames \/ (i - skip_first_frames) % stride # 0
    THEN ReadFrames(i + 1, frame_count, total_frames, readable, skip_first_frames,
                    stride, frame_load_cap)
    ELSE IF frame_load_cap > 0 /\ frame_count + 1 >= frame_load_cap
    THEN frame_count + 1
    ELSE ReadFrames(i + 1, frame_count + 1, total_frames, readable,
                    skip_first_frames, stride, frame_load_cap)

\* Lines 115-119: the -ss and -t arguments extract_audio hands to ffmpeg
FfmpegWindow(start, duration) ==
    [ss |-> start.num > 0, t |-> duration.num > 0]

\* Line 324
loaded_duration(frame_count, lfps) ==
    IF Truthy(lfps) THEN Frac(frame_count * lfps.den, lfps.num) ELSE Zero

\* Lines 40-53: the force_size choices
ForceSizes ==
    {"Disabled", "Custom Height", "Custom Width", "Custom",
     "256x?", "?x256", "256x256", "512x?", "?x512", "512x512"}

\* force_size.split("x") of a fixed preset
SplitX(force_size) ==
    CASE force_size = "256x?" -> <<"256", "?">>
      [] force_size = "?x256" -> <<"?", "256">>
      [] force_size = "256x256" -> <<"256", "256">>
      [] force_size = "512x?" -> <<"512", "?">>
      [] force_size = "?x512" -> <<"?", "512">>
      [] force_size = "512x512" -> <<"512", "512">>

\* int(part.replace("?", "0"))
PresetInt(part) ==
    LET digits == IF part = "?" THEN "0" ELSE part IN
    CASE digits = "0" -> 0
      [] digits = "256" -> 256
      [] digits = "512" -> 512

\* int(a * (b / c)) for a, b >= 0 and c > 0: the product truncated.  On the
\* sizes below the float product truncates to the exact quotient.
Scaled(a, b, c) == (a * b) \div c

\* Lines 227-247
target_size(force_size, width, height, custom_width, custom_height) ==
    IF force_size # "Disabled"
    THEN IF force_size = "Custom Width"
         THEN [new_width |-> custom_width,
               new_height |-> Scaled(height, custom_width, width)]
         ELSE IF force_size = "Custom Height"
         THEN [new_width |-> Scaled(width, custom_height, height),
               new_height |-> custom_height]
         ELSE IF force_size = "Custom"
         THEN [new_width |-> custom_width, new_height |-> custom_height]
         ELSE LET target_width == PresetInt(SplitX(force_size)[1])
                  target_height == PresetInt(SplitX(force_size)[2])
              IN  IF target_width = 0
                  THEN [new_width |-> Scaled(width, target_height, height),
                        new_height |-> target_height]
                  ELSE [new_width |-> target_width,
                        new_height |-> Scaled(height, target_width, width)]
    ELSE [new_width |-> width, new_height |-> height]

\* Lines 292-293: the size of a frame appended to frames
frame_size(force_size, width, height, size) ==
    IF force_size # "Disabled"
    THEN [width |-> size.new_width, height |-> size.new_height]
    ELSE [width |-> width, height |-> height]

\* custom_width, custom_height: multiples of the step 8
CustomSizes == {8}

\* cap.get(cv2.CAP_PROP_FPS): 0.0 when the file cannot be decoded
FpsValues ==
    {Frac(n, 1) : n \in 0..MaxFps} \cup {Frac(n, 2) : n \in {m \in 1..MaxFps : m % 2 = 1}}

\* The whole entry point: download (an exception leaves the call), decode,
\* compute the stride and the audio window, read the frames, extract the
\* audio, raise ValueError when no frame was kept.
LoadVideo ==
    /\ video.op = "idle"
    /\ \E dest \in {get_cache_path(url, VideoDir, ".mp4") : url \in URLs} :
        \E download \in UNION {DownloadOutcomes[files[dest], downloader] :
                                   downloader \in Preferences} :
            /\ files' = [files EXCEPT ![dest] = download.file]
            /\ IF download.raised
               THEN video' = [op |-> "load_video", raised |-> "download"]
               ELSE \E fps \in FpsValues, force_fps \in 0..MaxForceFps,
                       total_frames \in 0..MaxFrames,
                       skip_first_frames \in 0..MaxSkip,
                       select_every_nth \in 1..MaxNth,
                       frame_load_cap \in 0..MaxCap,
                       force_size \in ForceSizes,
                       width \in 1..MaxWidth, height \in 1..MaxHeight,
                       custom_width \in CustomSizes, custom_height \in CustomSizes :
                    \E readable \in 0..total_frames :
                        LET size == target_size(force_size, width, height,
                                                custom_width, custom_height)
                            stride == Stride(fps, force_fps, select_every_nth)
                            lfps == loaded_fps(fps, stride)
                            tft == target_frame_time(lfps)
                            start == start_time(fps, skip_first_frames)
                            adur == audio_duration(total_frames, skip_first_frames,
                                                   frame_load_cap, stride, tft)
                            frame_count == ReadFrames(0, 0, total_frames, readable,
                                                      skip_first_frames, stride,
                                                      frame_load_cap)
                        IN  video' =
                              [op |-> "load_video",
                               raised |-> IF frame_count = 0 THEN "ValueError" ELSE "no",
                               fps |-> fps, force_fps |-> force_fps,
                               total_frames |-> total_frames, readable |-> readable,
                               skip_first_frames |-> skip_first_frames,
                               select_every_nth |-> select_every_nth,
                               frame_load_cap |-> frame_load_cap,
                               force_size |-> force_size,
                               width |-> width, height |-> height,
                               custom_width |-> custom_width,
                               custom_height |-> custom_height,
                               new_width |-> size.new_width,
                               new_height |-> size.new_height,
                               frame |-> frame_size(force_size, width, height, size),
                               stride |-> stride, loaded_fps |-> lfps,
                               audio_start |-> start, audio_duration |-> adur,
                               ffmpeg |-> FfmpegWindow(start, adur),
                               frame_count |-> frame_count,
                               loaded_duration |-> loaded_duration(frame_count, lfps)]
    /\ UNCHANGED <<ncalls, call, detect, lora, json>>

NextVideo == LoadVideo

SpecVideo == Init /\ [][NextVideo]_vars

\* The call returned its frames, and cv2 delivered every frame the container
\* announced.
Loaded == video.op = "load_video" /\ video.raised = "no"
AllRead == video.readable = video.total_frames

\* C5: when force_fps > 0 and the source FPS is higher than force_fps, the
\* effective FPS of the loaded frames (source FPS / stride) does not exceed
\* force_fps.
C5_ForceFpsIsCap ==
    Loaded /\ video.force_fps > 0
           /\ FracLess(Frac(video.force_fps, 1), video.fps) =>
        FracLeq(video.loaded_fps, Frac(video.force_fps, 1))

\* C6: with frame_load_cap = 0, the duration of the loaded clip (frame_count /
\* effective FPS) equals the duration of the source span it was taken from
\* ((total_frames - skip_first_frames) / source FPS).
C6_DurationIdentical ==
    Loaded /\ AllRead /\ Truthy(video.fps) /\ video.frame_load_cap = 0 =>
        FracEq(video.loaded_duration,
               Frac((video.total_frames - video.skip_first_frames) * video.fps.den,
                    video.fps.num))

\* C7: the audio window asked of extract_audio starts at skip_first_frames /
\* source FPS and lasts as long as the frames actually loaded (frame_count /
\* effective FPS); its duration is never negative and never longer than the
\* span of the loaded frames.
C7_AudioWindow ==
    Loaded /\ AllRead /\ Truthy(video.fps) =>
        /\ FracEq(video.audio_start,
                  Frac(video.skip_first_frames * video.fps.den, video.fps.num))
        /\ FracEq(video.audio_duration, video.loaded_duration)
        /\ FracLeq(Zero, video.audio_duration)
        /\ FracLeq(video.audio_duration, video.loaded_duration)

\* C11: for the presets that name both dimensions ("256x256", "512x512") every
\* loaded frame has exactly that width and that height, whatever the source
\* size; for the presets with "?" the named dimension is exact and the other
\* is the source dimension scaled by the same ratio and truncated.
C11_PresetSize ==
    Loaded =>
        /\ video.force_size = "256x256" =>
               video.frame = [width |-> 256, height |-> 256]
        /\ video.force_size = "512x512" =>
               video.frame = [width |-> 512, height |-> 512]
        /\ video.force_size = "256x?" =>
               video.frame = [width |-> 256,
                              height |-> (video.height * 256) \div video.width]
        /\ video.force_size = "512x?" =>
               video.frame = [width |-> 512,
                              height |-> (video.height * 512) \div video.width]
        /\ video.force_size = "?x256" =>
               video.frame = [width |-> (video.width * 256) \div video.height,
                              height |-> 256]
        /\ video.force_size = "?x512" =>
               video.frame = [width |-> (video.width * 512) \div video.height,
                              height |-> 512]

(***************************************************************************)
(* Claims about the download cache                                         *)
(***************************************************************************)
Called == call.op # "idle"
NonEmptyFile(f) == f.st \in {"partial", "full"}
Attempts(trace) == SelectSeq(trace, LAMBDA e : e.name \in {"aria2", "get"})
Probes(trace) == SelectSeq(trace, LAMBDA e : e.name = "head")

\* C1: a call whose cache file exists and is non-empty returns (0.0, "cached"),
\* issues no HEAD probe, starts no aria2c and no GET, and leaves every cache
\* file as it was; a call whose cache file is missing or zero-length makes at
\* least one download attempt.
C1_CacheHit ==
    [][LET before == files[call'.dest] IN
       /\ NonEmptyFile(before) =>
              /\ ~call'.raised
              /\ call'.seconds = 0
              /\ call'.tool = "cached"
              /\ call'.trace = <<>>
              /\ files' = files
       /\ ~NonEmptyFile(before) =>
              /\ Len(Attempts(call'.trace)) >= 1
              /\ call'.tool # "cached"]_vars

C1_Witness ==
    /\ Called
    /\ call.tool = "cached"
    /\ call.seconds = 0
    /\ NonEmptyFile(files[call.dest])

\* C2: a call makes at most two download attempts; a second attempt is made
\* only after a failed aria2 attempt and is a python attempt, and then the tool
\* reported on success is "python"; the call raises exactly when its last
\* attempt failed, which is a python attempt; on success the reported tool is
\* the tool of the last attempt, which succeeded.
C2_OneShotFallback ==
    Called /\ call.tool # "cached" =>
        LET att == Attempts(call.trace)
            n == Len(att)
            ToolOf(e) == IF e.name = "aria2" THEN "aria2" ELSE "python"
        IN  /\ n \in {1, 2}
            /\ att[1].name = "aria2" /\ att[1].failed => n = 2
            /\ n = 2 => /\ att[1].name = "aria2" /\ att[1].failed
                        /\ att[2].name = "get"
            /\ att[1].name = "get" => n = 1
            /\ call.raised <=> att[n].failed
            /\ call.raised => att[n].name = "get"
            /\ ~call.raised => call.tool = ToolOf(att[n])

C2_Witness ==
    /\ Called
    /\ ~call.raised
    /\ call.tool = "python"
    /\ Len(Attempts(call.trace)) = 2
    /\ files[call.dest] = Full(call.body)

\* C4 as claimed: of two successive fetches, those that yield identical content
\* are stored under the same cache path and those that yield different content
\* under different cache paths.
Fetched(c) == c.op # "idle" /\ ~c.raised /\ c.tool # "cached"

SameCache(p, q) == p.dir = q.dir /\ p.ext = q.ext

====
